---- MODULE Spec2Model ----
(***************************************************************************)
(* The floating terminal of src/script.js: the TerminalAnimator playback   *)
(* loop (an async function suspended at timers) and the TerminalWindow     *)
(* controller (synchronous event handlers and one auto-reopen timer).      *)
(* One step of the model is one task of the browser's event loop: a timer  *)
(* callback or an event handler, run to its next await or to its return.   *)
(***************************************************************************)
EXTENDS Integers, Sequences, FiniteSets, TLC

\* ------------------------------------------------------------------------
\* Bounds of the model (not program constants)
\* ------------------------------------------------------------------------
\* A drag is followed only while it keeps left and top within MaxPos pixels
\* of the places a window is put at (see Homes).
MaxPos == 1

\* ------------------------------------------------------------------------
\* Terminal Animation Configuration (script.js 12-53)
\* ------------------------------------------------------------------------
\* A missing class is "" (output.class || '').
Out(t, d, c) == [text |-> t, delay |-> d, class |-> c]

terminalSequences ==
  << [command |->
        <<"c", "h", "e", "t", "e", "c", "h", "-", "a", "g", "e", "n", "t", " ",
          "-", "-", "t", "a", "s", "k", " ", "\"", "a", "n", "a", "l", "y", "z",
          "e", " ", "c", "o", "d", "e", "b", "a", "s", "e", "\"">>,
      outputs |->
        << Out("> Initializing secure, offline AI environment...", 300, ""),
           Out("> Loading local LLM (no cloud dependencies)...", 600, ""),
           Out("> Scanning repository structure...", 800, ""),
           Out("> Found 247 source files across 12 modules", 400, "info"),
           Out("> Ready for queries.", 300, "success") >>],
     [command |->
        <<"c", "h", "e", "t", "e", "c", "h", "-", "a", "g", "e", "n", "t", " ",
          "-", "-", "r", "a", "g", " ", "\"", "q", "u", "e", "r", "y", " ", "l",
          "e", "g", "a", "c", "y", " ", "d", "o", "c", "s", "\"">>,
      outputs |->
        << Out("> Connecting to RAG pipeline...", 300, ""),
           Out("> Indexing 1,247 legacy documentation files...", 700, ""),
           Out("> Building semantic embeddings...", 600, ""),
           Out("> Vector store ready (local, encrypted)", 400, "info"),
           Out("> Pipeline operational. Zero data leaves your network.", 400, "success") >>],
     [command |->
        <<"c", "h", "e", "t", "e", "c", "h", "-", "a", "g", "e", "n", "t", " ",
          "-", "-", "r", "e", "f", "a", "c", "t", "o", "r", " ", "\"", "o", "p",
          "t", "i", "m", "i", "z", "e", " ", "m", "o", "d", "u", "l", "e", "\"">>,
      outputs |->
        << Out("> Analyzing code patterns...", 400, ""),
           Out("> Identifying optimization opportunities...", 500, ""),
           Out("> Generating refactored code...", 600, ""),
           Out("> Running test suite... 47/47 passed", 700, "success"),
           Out("> Refactoring complete. PR ready for review.", 300, "success") >>],
     [command |->
        <<"c", "h", "e", "t", "e", "c", "h", "-", "a", "g", "e", "n", "t", " ",
          "-", "-", "m", "c", "p", " ", "\"", "c", "o", "n", "n", "e", "c", "t",
          " ", "t", "o", "o", "l", "s", "\"">>,
      outputs |->
        << Out("> Starting MCP server...", 300, ""),
           Out("> Registering tools: git, jira, confluence", 500, ""),
           Out("> Establishing secure connections...", 600, ""),
           Out("> All tools connected via Model Context Protocol", 400, "info"),
           Out("> AI assistant now has full tool access.", 300, "success") >>] >>

\* terminalSequences.length; currentSequence is a 0-based index.
K == Len(terminalSequences)
SequenceAt(idx) == terminalSequences[idx + 1]

\* ------------------------------------------------------------------------
\* State
\* ------------------------------------------------------------------------
VARIABLES
  \* --- init() of the page (script.js 600-613)
  mainPc,           \* "new" animator built, "windowed" window built, "started"
  \* --- TerminalAnimator fields (script.js 59-66)
  commandEl,        \* "null" or "el": the bound command surface
  outputEl,         \* "null" or "el"
  cursorEl,         \* "null" or "el"
  currentSequence,
  isAnimating,
  isPaused,
  \* --- the surfaces the animator writes into (DOM of script.js 213-218)
  commandText,      \* #terminal-command textContent, a sequence of characters
  outputLines,      \* children of #terminal-output: [className, textContent]
  cursorDisplay,    \* #cursor style.display
  \* --- where start() is suspended, and the locals of the suspended frames
  pc,               \* the await the loop is parked at
  charIdx,          \* i of typeText's for loop (0-based)
  lineIdx,          \* position of runSequence's for-of loop (0-based)
  completedRuns,    \* history: runs of runSequence completed, modulo 2K
  pausedInRun,      \* history: pause() was called since the current run began
  runClock,         \* history: <<t>>, the virtual time in ms between the
                    \* start of the current run and the start of the sleep
                    \* the loop is parked at; <<>> if there is no run or it
                    \* has been paused
  \* --- TerminalWindow fields (script.js 162-176)
  winbox,           \* TRUE once the WinBox instance exists
  hidden,           \* the WinBox instance is hidden (hide()/show())
  isMinimized,
  isMaximized,
  isClosed,
  reopenTimeout,    \* 0 (null) or the id setTimeout returned
  isMobile,
  dockElement,      \* TRUE when this.dockElement references a dock
  savedPosition,    \* <<>> (null) or <<[left, top, width, height]>>
  \* --- the page around the window
  timers,           \* ids of the pending auto-reopen timeouts
  reopenBtnDisplay, \* #terminal-reopen style.display
  docks,            \* number of .terminal-dock elements in document.body
  lastOp,           \* history: the last window method called and its effect
  \* --- the WinBox root element (winbox.body.parentElement) and the drag
  style,            \* inline style: left, top, width, height, position, animation
  classes,          \* classList of the root element
  winboxMove,       \* winbox.move
  floatTimer,       \* TRUE while createWindow's 100 ms timeout is pending
  drag,             \* closure of setupDragHandler and its listeners
  maxHist,          \* history: the geometry when maximized mode was last
                    \* entered, and whether a drag has moved the window since
  pressHist         \* history: style.left, style.top and style.animation as
                    \* they were at the last press that started a drag

animVars == <<commandEl, outputEl, cursorEl, currentSequence, isAnimating,
              isPaused, commandText, outputLines, cursorDisplay, pc, charIdx,
              lineIdx, completedRuns, pausedInRun, runClock>>
\* what the playback loop itself writes (everything of animVars but the
\* bindings and isPaused, which only the window writes)
loopVars == <<currentSequence, isAnimating, commandText, outputLines,
              cursorDisplay, pc, charIdx, lineIdx, completedRuns, runClock>>
lifeVars == <<winbox, hidden, isMinimized, isMaximized, isClosed,
              reopenTimeout, isMobile, dockElement, savedPosition, timers,
              reopenBtnDisplay, docks, lastOp>>
geomVars == <<style, classes, winboxMove, floatTimer, drag, maxHist,
              pressHist>>
vars == <<mainPc, animVars, lifeVars, geomVars>>

\* ------------------------------------------------------------------------
\* CSS lengths.  A length is kept with its unit, so that what parseInt reads
\* back from a style string is computed from the string that was written.
\* ------------------------------------------------------------------------
\* n + 'px' for an integer n
Px(n) == [unit |-> "px", n |-> n, half |-> FALSE]
\* x + 'px' for x = n + 0.5: what script.js 234 yields when
\* containerRect.width - width is odd
PxHalf(n) == [unit |-> "px", n |-> n, half |-> TRUE]
Vw(n) == [unit |-> "vw", n |-> n, half |-> FALSE]
\* `calc(100vh - ${n}px)`
CalcVhMinusPx(n) == [unit |-> "calc", n |-> n, half |-> FALSE]

\* parseInt(s, 10) || 0 (script.js 346-347): the leading integer of "12px"
\* or "100vw", and of "12.5px" too: parseInt stops at the point; "calc(...)"
\* has none, parseInt gives NaN and || turns it to 0.
ParseIntOr0(v) == IF v.unit \in {"px", "vw"} THEN v.n ELSE 0

Min(a, b) == IF a < b THEN a ELSE b
Abs(a) == IF a < 0 THEN -a ELSE a

\* var(--nav-height), script.js 457
navHeight == 72

\* ------------------------------------------------------------------------
\* Environment at window creation: viewport width, touch capability and the
\* position the container rectangle yields (script.js 199, 224-236).
\* ------------------------------------------------------------------------
Viewports == [innerWidth : {400, 1280}, touch : BOOLEAN]
Anchors == [x : {Px(0), PxHalf(0)}, top : {0}]

\* script.js 178-182
detectMobile(vp) == vp.innerWidth <= 1024 \/ vp.touch

\* ------------------------------------------------------------------------
\* Initial state: after `new TerminalAnimator()` (script.js 59-66, 606) and
\* before `new TerminalWindow(animator)`.
\* ------------------------------------------------------------------------
Init ==
  /\ mainPc = "new"
  /\ commandEl = "null" /\ outputEl = "null" /\ cursorEl = "null"
  /\ currentSequence = 0
  /\ isAnimating = FALSE
  /\ isPaused = FALSE
  /\ commandText = <<>> /\ outputLines = <<>> /\ cursorDisplay = ""
  /\ pc = "unstarted" /\ charIdx = 0 /\ lineIdx = 0
  /\ completedRuns = 0
  /\ pausedInRun = FALSE
  /\ runClock = <<>>
  /\ winbox = FALSE /\ hidden = FALSE
  /\ isMinimized = FALSE /\ isMaximized = FALSE /\ isClosed = FALSE
  /\ reopenTimeout = 0
  /\ isMobile = FALSE
  /\ dockElement = FALSE
  /\ savedPosition = <<>>
  /\ timers = {}
  /\ reopenBtnDisplay = ""
  /\ docks = 0
  /\ lastOp = [op |-> "none", took |-> FALSE]
  /\ style = [left |-> Px(0), top |-> Px(0), width |-> Px(0), height |-> Px(0),
              position |-> "", animation |-> ""]
  /\ classes = {}
  /\ winboxMove = FALSE
  /\ floatTimer = FALSE
  /\ drag = [installed |-> FALSE, listening |-> FALSE, isDragging |-> FALSE,
             startX |-> 0, startY |-> 0, startLeft |-> 0, startTop |-> 0]
  /\ maxHist = [geom |-> <<>>, moved |-> FALSE]
  /\ pressHist = [left |-> Px(0), top |-> Px(0), animation |-> ""]

\* ========================================================================
\* TerminalAnimator (script.js 58-156)
\* ========================================================================

\* setElements that forgets its third argument
setElements_SkipsCursor ==
  /\ commandEl' = "el"
  /\ outputEl' = "el"
  /\ UNCHANGED cursorEl

\* setElements (script.js 68-72)
setElements ==
  /\ commandEl' = "el"
  /\ outputEl' = "el"
  /\ cursorEl' = "el"

\* The literal delays of the playback (script.js 126, 129, 136, 141) and of
\* its polling (script.js 96, 152), in ms
typeSpeed == 40
settleDelay == 400
defaultDelay == 300
idleDelay == 8000
resumePoll == 100
startPoll == 500

\* output.delay || 300 (script.js 136)
Delay(o) == IF o.delay # 0 THEN o.delay ELSE defaultDelay

\* the ms of the setTimeout the loop is parked at (script.js 100-102)
Sleep ==
  CASE pc = "typeSleep" -> typeSpeed
    [] pc = "settle" -> settleDelay
    [] pc = "lineDelay" ->
         Delay(SequenceAt(currentSequence).outputs[lineIdx + 1])
    [] pc = "idle" -> idleDelay
    [] pc \in {"typeWait", "lineWait"} -> resumePoll
    [] OTHER -> startPoll

\* the run's clock when the pending sleep is over
Tick ==
  IF pausedInRun \/ runClock = <<>> THEN <<>> ELSE <<runClock[1] + Sleep>>

\* addOutputLine putting the new line before the others
addOutputLine_Prepends(lines, text, className) ==
  IF outputEl = "null"
  THEN lines
  ELSE <<[className |-> <<"output-line">> \o
                        (IF className # "" THEN <<className>> ELSE <<>>),
          textContent |-> text]>> \o lines

\* addOutputLine (script.js 104-110): the children of the output surface
\* after the call.  className is 'output-line' followed by the line's class.
addOutputLine(lines, text, className) ==
  IF outputEl = "null"
  THEN lines
  ELSE Append(lines,
         [className |-> <<"output-line">> \o
                        (IF className # "" THEN <<className>> ELSE <<>>),
          textContent |-> text])

\* The for loop of typeText (script.js 85-91), entered at iteration i with
\* `cur` on the command surface, run to its next await.  When the loop is
\* over typeText returns and runSequence parks at sleep(400) (script.js 129).
TypeLoop(i, text, cur) ==
  /\ charIdx' = i
  /\ IF i < Len(text)
     THEN IF isPaused
          THEN /\ pc' = "typeWait"          \* await waitForResume()
               /\ commandText' = cur
          ELSE /\ commandText' = Append(cur, text[i + 1])
               /\ pc' = "typeSleep"         \* await sleep(speed)
     ELSE /\ pc' = "settle"
          /\ commandText' = cur

\* The for-of loop of runSequence (script.js 132-138), entered at output j
\* with `lines` on the output surface, run to its next await.  When the loop
\* is over runSequence parks at sleep(8000) (script.js 141).
OutputLoop(j, outs, lines) ==
  /\ lineIdx' = j
  /\ outputLines' = lines
  /\ IF j < Len(outs)
     THEN IF isPaused
          THEN pc' = "lineWait"             \* await waitForResume()
          ELSE pc' = "lineDelay"            \* await sleep(output.delay || 300)
     ELSE pc' = "idle"

\* runSequence up to its first await (script.js 112-126), called with
\* isAnimating = animating.  The early return of line 113 hands control back
\* to start(), whose loop calls runSequence again without ever reaching a
\* timer: the page hangs in microtasks ("livelock").
runSequence(sequence, animating) ==
  IF animating \/ commandEl = "null" \/ outputEl = "null"
  THEN /\ pc' = "livelock"
       /\ isAnimating' = animating
       /\ runClock' = <<>>
       /\ UNCHANGED <<commandText, outputLines, cursorDisplay, charIdx, lineIdx,
                      pausedInRun>>
  ELSE /\ isAnimating' = TRUE
       /\ pausedInRun' = FALSE
       /\ runClock' = <<0>>
       /\ outputLines' = <<>>
       /\ cursorDisplay' = IF cursorEl # "null" THEN "inline" ELSE cursorDisplay
       /\ lineIdx' = 0
       \* typeText: element.textContent = '' and the loop from i = 0
       /\ TypeLoop(0, sequence.command, <<>>)

\* the body of start()'s while loop without the test of the targets
LoopTop_NoBoundCheck(idx, animating) ==
  IF ~isPaused
  THEN runSequence(SequenceAt(idx), animating)
  ELSE /\ pc' = "poll"
       /\ isAnimating' = animating
       /\ charIdx' = 0
       /\ lineIdx' = 0
       /\ runClock' = <<>>
       /\ UNCHANGED <<commandText, outputLines, cursorDisplay, pausedInRun>>

\* One evaluation of the body of start()'s while loop (script.js 147-154)
\* with currentSequence = idx and isAnimating = animating.
LoopTop(idx, animating) ==
  IF ~isPaused /\ commandEl # "null" /\ outputEl # "null"
  THEN runSequence(SequenceAt(idx), animating)
  ELSE /\ pc' = "poll"                      \* await sleep(500)
       /\ isAnimating' = animating
       /\ charIdx' = 0
       /\ lineIdx' = 0
       /\ runClock' = <<>>
       /\ UNCHANGED <<commandText, outputLines, cursorDisplay, pausedInRun>>

\* animator.start() called by init() (script.js 612, 146-155)
Start ==
  /\ mainPc = "windowed"
  /\ mainPc' = "started"
  /\ LoopTop(currentSequence, isAnimating)
  /\ UNCHANGED <<currentSequence, completedRuns>>
  /\ UNCHANGED <<commandEl, outputEl, cursorEl, isPaused, lifeVars, geomVars>>

\* WakePoll with the index advanced outside the if of start(): it moves on
\* although no run was played
WakePoll_Advances ==
  /\ pc = "poll"
  /\ currentSequence' = (currentSequence + 1) % K
  /\ LoopTop((currentSequence + 1) % K, isAnimating)
  /\ UNCHANGED completedRuns
  /\ UNCHANGED <<mainPc, commandEl, outputEl, cursorEl, isPaused, lifeVars, geomVars>>

\* sleep(500) of start() is over (script.js 152)
WakePoll ==
  /\ pc = "poll"
  /\ LoopTop(currentSequence, isAnimating)
  /\ UNCHANGED <<currentSequence, completedRuns>>
  /\ UNCHANGED <<mainPc, commandEl, outputEl, cursorEl, isPaused, lifeVars, geomVars>>

\* sleep(speed) of typeText is over (script.js 90): i++ and the next turn
WakeTypeSleep ==
  /\ pc = "typeSleep"
  /\ runClock' = Tick
  /\ TypeLoop(charIdx + 1, SequenceAt(currentSequence).command, commandText)
  /\ UNCHANGED <<currentSequence, isAnimating, outputLines, cursorDisplay,
                 lineIdx, completedRuns>>
  /\ UNCHANGED <<mainPc, commandEl, outputEl, cursorEl, isPaused, pausedInRun,
                 lifeVars, geomVars>>

\* sleep(100) of waitForResume inside typeText is over (script.js 94-98,
\* 86-90): still paused, sleep again; else write the character and sleep.
WakeTypeWait ==
  /\ pc = "typeWait"
  /\ runClock' = Tick
  /\ IF isPaused
     THEN UNCHANGED <<pc, commandText>>
     ELSE /\ commandText' =
               Append(commandText, SequenceAt(currentSequence).command[charIdx + 1])
          /\ pc' = "typeSleep"
  /\ UNCHANGED <<currentSequence, isAnimating, outputLines, cursorDisplay,
                 charIdx, lineIdx, completedRuns>>
  /\ UNCHANGED <<mainPc, commandEl, outputEl, cursorEl, isPaused, pausedInRun,
                 lifeVars, geomVars>>

\* WakeSettle with the first line appended at once, without its reveal delay
WakeSettle_NoRevealDelay ==
  /\ pc = "settle"
  /\ runClock' = Tick
  /\ LET outs == SequenceAt(currentSequence).outputs
     IN OutputLoop(1, outs, addOutputLine(outputLines, outs[1].text, outs[1].class))
  /\ UNCHANGED <<currentSequence, isAnimating, commandText, cursorDisplay,
                 charIdx, completedRuns>>
  /\ UNCHANGED <<mainPc, commandEl, outputEl, cursorEl, isPaused, pausedInRun,
                 lifeVars, geomVars>>

\* sleep(400) is over (script.js 129): enter the loop over the outputs
WakeSettle ==
  /\ pc = "settle"
  /\ runClock' = Tick
  /\ OutputLoop(0, SequenceAt(currentSequence).outputs, outputLines)
  /\ UNCHANGED <<currentSequence, isAnimating, commandText, cursorDisplay,
                 charIdx, completedRuns>>
  /\ UNCHANGED <<mainPc, commandEl, outputEl, cursorEl, isPaused, pausedInRun,
                 lifeVars, geomVars>>

\* WakeLineWait going on with the next output after a pause: the line it
\* was paused before is lost
WakeLineWait_SkipsLine ==
  /\ pc = "lineWait"
  /\ runClock' = Tick
  /\ IF isPaused
     THEN UNCHANGED <<pc, lineIdx, outputLines>>
     ELSE OutputLoop(lineIdx + 1, SequenceAt(currentSequence).outputs, outputLines)
  /\ UNCHANGED <<currentSequence, isAnimating, commandText, cursorDisplay,
                 charIdx, completedRuns>>
  /\ UNCHANGED <<mainPc, commandEl, outputEl, cursorEl, isPaused, pausedInRun,
                 lifeVars, geomVars>>

\* sleep(100) of waitForResume inside the output loop is over (script.js
\* 133-136): still paused, sleep again; else start the line's reveal delay.
WakeLineWait ==
  /\ pc = "lineWait"
  /\ runClock' = Tick
  /\ pc' = IF isPaused THEN "lineWait" ELSE "lineDelay"
  /\ UNCHANGED <<currentSequence, isAnimating, commandText, outputLines,
                 cursorDisplay, charIdx, lineIdx, completedRuns>>
  /\ UNCHANGED <<mainPc, commandEl, outputEl, cursorEl, isPaused, pausedInRun,
                 lifeVars, geomVars>>

\* the reveal delay of a line is over (script.js 136-137): the line is
\* appended and the loop goes on with the next output
WakeLineDelay ==
  /\ pc = "lineDelay"
  /\ runClock' = Tick
  /\ LET outs == SequenceAt(currentSequence).outputs
         o == outs[lineIdx + 1]
     IN OutputLoop(lineIdx + 1, outs, addOutputLine(outputLines, o.text, o.class))
  /\ UNCHANGED <<currentSequence, isAnimating, commandText, cursorDisplay,
                 charIdx, completedRuns>>
  /\ UNCHANGED <<mainPc, commandEl, outputEl, cursorEl, isPaused, pausedInRun,
                 lifeVars, geomVars>>

\* WakeIdle of a runSequence that does not reset isAnimating
WakeIdle_KeepsAnimating ==
  /\ pc = "idle"
  /\ currentSequence' = (currentSequence + 1) % K
  /\ completedRuns' = (completedRuns + 1) % (2 * K)
  /\ LoopTop((currentSequence + 1) % K, isAnimating)
  /\ UNCHANGED <<mainPc, commandEl, outputEl, cursorEl, isPaused, lifeVars, geomVars>>

\* sleep(8000) is over (script.js 141-143, 150): the run ends, start()
\* advances the index and evaluates its loop again
WakeIdle ==
  /\ pc = "idle"
  /\ currentSequence' = (currentSequence + 1) % K
  /\ completedRuns' = (completedRuns + 1) % (2 * K)
  /\ LoopTop((currentSequence + 1) % K, FALSE)
  /\ UNCHANGED <<mainPc, commandEl, outputEl, cursorEl, isPaused, lifeVars, geomVars>>

NextAnim ==
  \/ WakePoll
  \/ WakeTypeSleep
  \/ WakeTypeWait
  \/ WakeSettle
  \/ WakeLineWait
  \/ WakeLineDelay
  \/ WakeIdle

\* ========================================================================
\* TerminalWindow (script.js 161-512)
\* ========================================================================

\* the id a new setTimeout returns: one no pending or remembered timer has
FreshTimer ==
  CHOOSE n \in 1..(Cardinality(timers) + 2) : n \notin (timers \cup {reopenTimeout})

Op(name, took) == [op |-> name, took |-> took]

\* createWindow (script.js 198-285) for the viewport vp and the container
\* position a, with this.isMobile = mobile: a new WinBox with new, empty
\* surfaces; setupDragHandler on desktop (script.js 323-333, 390); the 100 ms
\* timeout; connectAnimator (script.js 308-315).
createWindow(mobile, vp, a) ==
  /\ winbox' = TRUE
  /\ hidden' = FALSE
  /\ style' = [left |-> a.x,
               top |-> Px(IF mobile THEN a.top ELSE a.top + 20),
               width |-> Px(Min(540, vp.innerWidth - 40)),
               height |-> Px(380),
               position |-> "",
               animation |-> ""]
  /\ classes' = {"no-animation", "no-header"}
  /\ winboxMove' = FALSE
  /\ drag' = IF ~mobile
             THEN [installed |-> TRUE, listening |-> FALSE, isDragging |-> FALSE,
                   startX |-> 0, startY |-> 0, startLeft |-> 0, startTop |-> 0]
             \* no handler on the new header; what is left of the closure
             \* of a former window can only reach that window's detached
             \* element
             ELSE [drag EXCEPT !.installed = FALSE, !.listening = FALSE,
                               !.isDragging = FALSE]
  /\ floatTimer' = TRUE
  /\ UNCHANGED <<maxHist, pressHist>>
  /\ commandText' = <<>> /\ outputLines' = <<>> /\ cursorDisplay' = ""
  /\ setElements
  /\ isPaused' = FALSE
  /\ reopenBtnDisplay' = "none"
  /\ isClosed' = FALSE

\* new TerminalWindow(animator) called by init() (script.js 609, 162-196)
CreateWindow ==
  /\ mainPc = "new"
  /\ mainPc' = "windowed"
  /\ \E vp \in Viewports, a \in Anchors :
       /\ isMobile' = detectMobile(vp)
       /\ createWindow(detectMobile(vp), vp, a)
  /\ lastOp' = Op("createWindow", TRUE)
  /\ UNCHANGED <<isMinimized, isMaximized, reopenTimeout, dockElement,
                 savedPosition, timers, docks>>
  /\ UNCHANGED <<currentSequence, isAnimating, pc, charIdx, lineIdx,
                 completedRuns, pausedInRun, runClock>>

\* createDock (script.js 486-504): the dock is appended to document.body
createDock ==
  /\ dockElement' = TRUE
  /\ docks' = docks + 1

\* removeDock dropping the reference without removing the element
removeDock_LeavesElement ==
  /\ dockElement' = FALSE
  /\ UNCHANGED docks

\* removeDock (script.js 506-511)
removeDock ==
  IF dockElement
  THEN /\ docks' = docks - 1
       /\ dockElement' = FALSE
  ELSE UNCHANGED <<docks, dockElement>>

\* close() without its !this.isClosed guard
Close_NoGuard ==
  /\ mainPc = "started"
  /\ IF winbox
     THEN /\ isPaused' = TRUE
          /\ hidden' = TRUE
          /\ isClosed' = TRUE
          /\ reopenBtnDisplay' = "flex"
          /\ reopenTimeout' = FreshTimer
          /\ timers' = timers \cup {FreshTimer}
          /\ pausedInRun' = (pausedInRun \/ isAnimating)
          /\ lastOp' = Op("close", TRUE)
     ELSE /\ lastOp' = Op("close", FALSE)
          /\ UNCHANGED <<isPaused, pausedInRun, hidden, isClosed, reopenBtnDisplay,
                         reopenTimeout, timers>>
  /\ UNCHANGED <<winbox, isMinimized, isMaximized, isMobile, dockElement,
                 savedPosition, docks>>
  /\ UNCHANGED <<mainPc, commandEl, outputEl, cursorEl, loopVars, geomVars>>

\* close() that leaves the reopen affordance as it is
Close_KeepsButton ==
  /\ mainPc = "started"
  /\ IF winbox /\ ~isClosed
     THEN /\ isPaused' = TRUE
          /\ hidden' = TRUE
          /\ isClosed' = TRUE
          /\ UNCHANGED reopenBtnDisplay
          /\ reopenTimeout' = FreshTimer
          /\ timers' = timers \cup {FreshTimer}
          /\ pausedInRun' = (pausedInRun \/ isAnimating)
          /\ lastOp' = Op("close", TRUE)
     ELSE /\ lastOp' = Op("close", FALSE)
          /\ UNCHANGED <<isPaused, pausedInRun, hidden, isClosed, reopenBtnDisplay,
                         reopenTimeout, timers>>
  /\ UNCHANGED <<winbox, isMinimized, isMaximized, isMobile, dockElement,
                 savedPosition, docks>>
  /\ UNCHANGED <<mainPc, commandEl, outputEl, cursorEl, loopVars, geomVars>>

\* close() (script.js 393-409)
Close ==
  /\ mainPc = "started"
  /\ IF winbox /\ ~isClosed
     THEN /\ isPaused' = TRUE
          /\ hidden' = TRUE
          /\ isClosed' = TRUE
          /\ reopenBtnDisplay' = "flex"
          /\ reopenTimeout' = FreshTimer
          /\ timers' = timers \cup {FreshTimer}
          /\ pausedInRun' = (pausedInRun \/ isAnimating)
          /\ lastOp' = Op("close", TRUE)
     ELSE /\ lastOp' = Op("close", FALSE)
          /\ UNCHANGED <<isPaused, pausedInRun, hidden, isClosed, reopenBtnDisplay,
                         reopenTimeout, timers>>
  /\ UNCHANGED <<winbox, isMinimized, isMaximized, isMobile, dockElement,
                 savedPosition, docks>>
  /\ UNCHANGED <<mainPc, commandEl, outputEl, cursorEl, loopVars, geomVars>>

\* minimize() (script.js 411-420)
Minimize ==
  /\ mainPc = "started"
  /\ IF winbox /\ ~isMinimized
     THEN /\ isPaused' = TRUE
          /\ hidden' = TRUE
          /\ isMinimized' = TRUE
          /\ createDock
          /\ pausedInRun' = (pausedInRun \/ isAnimating)
          /\ lastOp' = Op("minimize", TRUE)
     ELSE /\ lastOp' = Op("minimize", FALSE)
          /\ UNCHANGED <<isPaused, pausedInRun, hidden, isMinimized, dockElement, docks>>
  /\ UNCHANGED <<winbox, isMaximized, isClosed, reopenTimeout, isMobile,
                 savedPosition, timers, reopenBtnDisplay>>
  /\ UNCHANGED <<mainPc, commandEl, outputEl, cursorEl, loopVars, geomVars>>

\* restore() without its animator.resume()
Restore_NoResume ==
  /\ mainPc = "started"
  /\ IF winbox /\ isMinimized
     THEN /\ hidden' = FALSE
          /\ isMinimized' = FALSE
          /\ UNCHANGED isPaused
          /\ removeDock
          /\ lastOp' = Op("restore", TRUE)
     ELSE /\ lastOp' = Op("restore", FALSE)
          /\ UNCHANGED <<isPaused, hidden, isMinimized, dockElement, docks>>
  /\ UNCHANGED pausedInRun
  /\ UNCHANGED <<winbox, isMaximized, isClosed, reopenTimeout, isMobile,
                 savedPosition, timers, reopenBtnDisplay>>
  /\ UNCHANGED <<mainPc, commandEl, outputEl, cursorEl, loopVars, geomVars>>

\* restore() (script.js 422-431)
Restore ==
  /\ mainPc = "started"
  /\ IF winbox /\ isMinimized
     THEN /\ hidden' = FALSE
          /\ isMinimized' = FALSE
          /\ isPaused' = FALSE
          /\ removeDock
          /\ lastOp' = Op("restore", TRUE)
     ELSE /\ lastOp' = Op("restore", FALSE)
          /\ UNCHANGED <<isPaused, hidden, isMinimized, dockElement, docks>>
  /\ UNCHANGED pausedInRun
  /\ UNCHANGED <<winbox, isMaximized, isClosed, reopenTimeout, isMobile,
                 savedPosition, timers, reopenBtnDisplay>>
  /\ UNCHANGED <<mainPc, commandEl, outputEl, cursorEl, loopVars, geomVars>>

\* toggleMaximize() restoring the size but not left and top
ToggleMaximize_KeepsPosition ==
  /\ mainPc = "started"
  /\ IF ~winbox
     THEN /\ lastOp' = Op("toggleMaximize", FALSE)
          /\ UNCHANGED <<style, classes, isMaximized, savedPosition, maxHist>>
     ELSE IF isMaximized
          THEN /\ style' = [style EXCEPT !.width = savedPosition[1].width,
                                         !.height = savedPosition[1].height,
                                         !.position = "absolute"]
               /\ classes' = classes \ {"max"}
               /\ isMaximized' = FALSE
               /\ lastOp' = Op("toggleMaximize", FALSE)
               /\ UNCHANGED <<savedPosition, maxHist>>
          ELSE /\ savedPosition' = << [left |-> style.left, top |-> style.top,
                                       width |-> style.width,
                                       height |-> style.height] >>
               /\ style' = [style EXCEPT !.position = "fixed",
                                         !.left = Px(0),
                                         !.top = Px(navHeight),
                                         !.width = Vw(100),
                                         !.height = CalcVhMinusPx(navHeight)]
               /\ classes' = classes \cup {"max"}
               /\ isMaximized' = TRUE
               /\ lastOp' = Op("toggleMaximize", TRUE)
               /\ maxHist' = [geom |-> << [left |-> style.left, top |-> style.top,
                                            width |-> style.width,
                                            height |-> style.height] >>,
                              moved |-> FALSE]
  /\ UNCHANGED <<winbox, hidden, isMinimized, isClosed, reopenTimeout, isMobile,
                 dockElement, timers, reopenBtnDisplay, docks>>
  /\ UNCHANGED <<winboxMove, floatTimer, drag, pressHist>>
  /\ UNCHANGED <<mainPc, animVars>>

\* toggleMaximize() (script.js 433-466)
ToggleMaximize ==
  /\ mainPc = "started"
  /\ IF ~winbox
     THEN /\ lastOp' = Op("toggleMaximize", FALSE)
          /\ UNCHANGED <<style, classes, isMaximized, savedPosition, maxHist>>
     ELSE IF isMaximized
          THEN /\ style' = [style EXCEPT !.left = savedPosition[1].left,
                                         !.top = savedPosition[1].top,
                                         !.width = savedPosition[1].width,
                                         !.height = savedPosition[1].height,
                                         !.position = "absolute"]
               /\ classes' = classes \ {"max"}
               /\ isMaximized' = FALSE
               /\ lastOp' = Op("toggleMaximize", FALSE)
               /\ UNCHANGED <<savedPosition, maxHist>>
          ELSE /\ savedPosition' = << [left |-> style.left, top |-> style.top,
                                       width |-> style.width,
                                       height |-> style.height] >>
               /\ style' = [style EXCEPT !.position = "fixed",
                                         !.left = Px(0),
                                         !.top = Px(navHeight),
                                         !.width = Vw(100),
                                         !.height = CalcVhMinusPx(navHeight)]
               /\ classes' = classes \cup {"max"}
               /\ isMaximized' = TRUE
               /\ lastOp' = Op("toggleMaximize", TRUE)
               /\ maxHist' = [geom |-> << [left |-> style.left, top |-> style.top,
                                            width |-> style.width,
                                            height |-> style.height] >>,
                              moved |-> FALSE]
  /\ UNCHANGED <<winbox, hidden, isMinimized, isClosed, reopenTimeout, isMobile,
                 dockElement, timers, reopenBtnDisplay, docks>>
  /\ UNCHANGED <<winboxMove, floatTimer, drag, pressHist>>
  /\ UNCHANGED <<mainPc, animVars>>

\* reopen() without the clearTimeout block
reopen_KeepsTimer(pending) ==
  /\ timers' = pending
  /\ UNCHANGED reopenTimeout
  /\ IF winbox
     THEN /\ hidden' = FALSE
          /\ isClosed' = FALSE
          /\ reopenBtnDisplay' = "none"
          /\ isPaused' = FALSE
          /\ UNCHANGED <<winbox, commandEl, outputEl, cursorEl, commandText,
                         outputLines, cursorDisplay, geomVars>>
     ELSE \E vp \in Viewports, a \in Anchors : createWindow(isMobile, vp, a)
  /\ UNCHANGED <<isMinimized, isMaximized, isMobile, dockElement,
                 savedPosition, docks>>
  /\ UNCHANGED <<mainPc, currentSequence, isAnimating, pc, charIdx, lineIdx,
                 completedRuns, pausedInRun, runClock>>

\* reopen() (script.js 468-484), run with `pending` as the pending timers.
\* The else branch builds a new window from what the environment then is.
reopen(pending) ==
  /\ IF reopenTimeout # 0
     THEN /\ timers' = pending \ {reopenTimeout}     \* clearTimeout
          /\ reopenTimeout' = 0
     ELSE /\ timers' = pending
          /\ UNCHANGED reopenTimeout
  /\ IF winbox
     THEN /\ hidden' = FALSE
          /\ isClosed' = FALSE
          /\ reopenBtnDisplay' = "none"
          /\ isPaused' = FALSE
          /\ UNCHANGED <<winbox, commandEl, outputEl, cursorEl, commandText,
                         outputLines, cursorDisplay, geomVars>>
     ELSE \E vp \in Viewports, a \in Anchors : createWindow(isMobile, vp, a)
  /\ UNCHANGED <<isMinimized, isMaximized, isMobile, dockElement,
                 savedPosition, docks>>
  /\ UNCHANGED <<mainPc, currentSequence, isAnimating, pc, charIdx, lineIdx,
                 completedRuns, pausedInRun, runClock>>

\* click on #terminal-reopen (script.js 317-321)
Reopen ==
  /\ mainPc = "started"
  /\ lastOp' = Op("reopen", isClosed)
  /\ reopen(timers)

\* the timeout callback testing the wrong flag
AutoReopen_ChecksMinimized ==
  /\ mainPc = "started"
  /\ \E id \in timers :
       IF isMinimized
       THEN /\ lastOp' = Op("autoReopen", TRUE)
            /\ reopen(timers \ {id})
       ELSE /\ lastOp' = Op("autoReopen", FALSE)
            /\ timers' = timers \ {id}
            /\ UNCHANGED <<winbox, hidden, isMinimized, isMaximized, isClosed,
                           reopenTimeout, isMobile, dockElement, savedPosition,
                           reopenBtnDisplay, docks>>
            /\ UNCHANGED <<mainPc, animVars, geomVars>>

\* the auto-reopen timeout id fires (script.js 403-407)
AutoReopen ==
  /\ mainPc = "started"
  /\ \E id \in timers :
       IF isClosed
       THEN /\ lastOp' = Op("autoReopen", TRUE)
            /\ reopen(timers \ {id})
       ELSE /\ lastOp' = Op("autoReopen", FALSE)
            /\ timers' = timers \ {id}
            /\ UNCHANGED <<winbox, hidden, isMinimized, isMaximized, isClosed,
                           reopenTimeout, isMobile, dockElement, savedPosition,
                           reopenBtnDisplay, docks>>
            /\ UNCHANGED <<mainPc, animVars, geomVars>>

NextLife ==
  \/ Close
  \/ Minimize
  \/ Restore
  \/ ToggleMaximize
  \/ Reopen
  \/ AutoReopen

\* ------------------------------------------------------------------------
\* Pointer and viewport events
\* ------------------------------------------------------------------------
\* e.clientX, e.clientY of the events: two places per axis, which give a
\* pointer delta of every sign
Coords == {0, 1}

\* the places a window is put at: the container anchor, its desktop offset
\* and the maximized top
Homes == {0, 20, navHeight}
NearHome(v) == \E h \in Homes : Abs(v - h) <= MaxPos

\* style.animation of the idle float (script.js 272)
terminalFloat == "terminalFloat 6s ease-in-out infinite"

\* onMouseDown(e) (script.js 335-360); onBtn: e.target is inside a
\* .terminal-btn; button: e.button; (x, y): e.clientX, e.clientY
onMouseDown(onBtn, button, x, y) ==
  IF onBtn \/ button # 0
  THEN UNCHANGED <<drag, style, classes, pressHist>>
  ELSE /\ drag' = [drag EXCEPT !.isDragging = TRUE,
                               !.startX = x,
                               !.startY = y,
                               !.startLeft = ParseIntOr0(style.left),
                               !.startTop = ParseIntOr0(style.top),
                               !.listening = TRUE]
       /\ style' = [style EXCEPT !.animation = "none"]
       /\ classes' = classes \cup {"dragging"}
       /\ pressHist' = [left |-> style.left, top |-> style.top,
                        animation |-> style.animation]

\* mousedown on .terminal-header of a window that is shown; the listener is
\* there only if setupDragHandler ran for this window (script.js 260-263, 390)
MouseDown ==
  /\ mainPc = "started"
  /\ winbox /\ ~hidden
  /\ IF drag.installed
     THEN \E onBtn \in BOOLEAN, button \in {0, 2} :
            IF onBtn \/ button # 0
            THEN onMouseDown(onBtn, button, 0, 0)
            ELSE \E x \in Coords, y \in Coords : onMouseDown(onBtn, button, x, y)
     ELSE UNCHANGED <<drag, style, classes, pressHist>>
  /\ UNCHANGED <<winboxMove, floatTimer, maxHist>>
  /\ UNCHANGED <<mainPc, animVars, lifeVars>>

\* onMouseMove(e) with isDragging true (script.js 365-375); (x, y):
\* e.clientX, e.clientY
DragTo(x, y) ==
  LET newX == drag.startLeft + (x - drag.startX)
      newY == drag.startTop + (y - drag.startY)
  IN /\ NearHome(newX) /\ NearHome(newY)
     /\ style' = [style EXCEPT !.left = Px(newX), !.top = Px(newY)]
     /\ maxHist' = [maxHist EXCEPT !.moved =
                      @ \/ (isMaximized /\ style' # style)]

\* mousemove on document (script.js 362-376)
MouseMove ==
  /\ mainPc = "started"
  /\ IF drag.listening /\ drag.isDragging
     THEN \E x \in Coords, y \in Coords : DragTo(x, y)
     ELSE UNCHANGED <<style, maxHist>>
  /\ UNCHANGED <<classes, winboxMove, floatTimer, drag, pressHist>>
  /\ UNCHANGED <<mainPc, animVars, lifeVars>>

\* mouseup on document (script.js 378-388)
MouseUp ==
  /\ mainPc = "started"
  /\ IF drag.listening /\ drag.isDragging
     THEN /\ drag' = [drag EXCEPT !.isDragging = FALSE, !.listening = FALSE]
          /\ classes' = classes \ {"dragging"}
     ELSE UNCHANGED <<drag, classes>>
  /\ UNCHANGED <<style, winboxMove, floatTimer, maxHist, pressHist>>
  /\ UNCHANGED <<mainPc, animVars, lifeVars>>

\* resize of the viewport (script.js 189-195)
Resize ==
  /\ mainPc = "started"
  /\ \E vp \in Viewports :
       /\ isMobile' = detectMobile(vp)
       /\ winboxMove' = IF winbox THEN ~detectMobile(vp) ELSE winboxMove
  /\ UNCHANGED <<winbox, hidden, isMinimized, isMaximized, isClosed,
                 reopenTimeout, dockElement, savedPosition, timers,
                 reopenBtnDisplay, docks, lastOp>>
  /\ UNCHANGED <<style, classes, floatTimer, drag, maxHist, pressHist>>
  /\ UNCHANGED <<mainPc, animVars>>

\* the 100 ms timeout of createWindow fires (script.js 266-274)
FloatTimer ==
  /\ mainPc = "started"
  /\ floatTimer
  /\ floatTimer' = FALSE
  /\ IF winbox
     THEN /\ classes' = classes \ {"no-animation"}
          /\ style' = IF ~isMobile
                      THEN [style EXCEPT !.animation = terminalFloat]
                      ELSE style
     ELSE UNCHANGED <<classes, style>>
  /\ UNCHANGED <<winboxMove, drag, maxHist, pressHist>>
  /\ UNCHANGED <<mainPc, animVars, lifeVars>>

NextPointer ==
  \/ MouseDown
  \/ MouseMove
  \/ MouseUp
  \/ Resize
  \/ FloatTimer

\* ------------------------------------------------------------------------
\* The TerminalAnimator on its own: a client that calls the public methods
\* of a new animator in any order, so that start() can come before the
\* first setElements().  The client owns the three surfaces, always hands
\* over all three (as connectAnimator does, script.js 309-313) and may have
\* hidden the cursor surface.
\* ------------------------------------------------------------------------
windowVars == <<winbox, hidden, isMinimized, isMaximized, isClosed,
                reopenTimeout, isMobile, dockElement, savedPosition, timers,
                reopenBtnDisplay, docks>>

\* animator.start() (script.js 146-155)
AnimStart ==
  /\ mainPc = "new"
  /\ pc = "unstarted"
  /\ LoopTop(currentSequence, isAnimating)
  /\ lastOp' = Op("start", commandEl # "null" /\ outputEl # "null")
  /\ UNCHANGED <<currentSequence, completedRuns>>
  /\ UNCHANGED <<mainPc, commandEl, outputEl, cursorEl, isPaused, windowVars,
                 geomVars>>

\* animator.setElements(commandEl, outputEl, cursorEl) (script.js 68-72);
\* lastOp tells whether the loop of start() was already running
AnimSetElements ==
  /\ mainPc = "new"
  /\ setElements
  /\ lastOp' = Op("setElements", pc # "unstarted")
  /\ UNCHANGED <<mainPc, isPaused, pausedInRun, loopVars, windowVars, geomVars>>

\* animator.pause() (script.js 74-76)
AnimPause ==
  /\ mainPc = "new"
  /\ isPaused' = TRUE
  /\ pausedInRun' = (pausedInRun \/ isAnimating)
  /\ lastOp' = Op("pause", ~isPaused)
  /\ UNCHANGED <<mainPc, commandEl, outputEl, cursorEl, loopVars, windowVars,
                 geomVars>>

\* animator.resume() (script.js 78-80)
AnimResume ==
  /\ mainPc = "new"
  /\ isPaused' = FALSE
  /\ lastOp' = Op("resume", isPaused)
  /\ UNCHANGED <<mainPc, commandEl, outputEl, cursorEl, pausedInRun, loopVars,
                 windowVars, geomVars>>

\* the cursor surface (script.js 216) is not shown: its owner, or a rule of
\* the page's stylesheet, which is not part of script.js, puts display none
\* on it
HideCursor ==
  /\ mainPc = "new"
  /\ cursorDisplay # "none"
  /\ cursorDisplay' = "none"
  /\ lastOp' = Op("hideCursor", TRUE)
  /\ UNCHANGED <<mainPc, commandEl, outputEl, cursorEl, currentSequence,
                 isAnimating, isPaused, commandText, outputLines, pc, charIdx,
                 lineIdx, completedRuns, pausedInRun, runClock, windowVars,
                 geomVars>>

NextAnimator ==
  \/ AnimStart
  \/ AnimSetElements
  \/ AnimPause
  \/ AnimResume
  \/ HideCursor
  \/ NextAnim

\* ========================================================================
\* Specifications
\* ========================================================================
\* the playback loop against the window's lifecycle operations
Next ==
  \/ CreateWindow
  \/ Start
  \/ NextAnim
  \/ NextLife

Spec == Init /\ [][Next]_vars

\* the window's lifecycle alone.  The playback loop writes no variable of the
\* window (and isPaused only the window writes), so its steps are left out.
NextLifeOnly ==
  \/ CreateWindow
  \/ Start
  \/ NextLife

SpecLife == Init /\ [][NextLifeOnly]_vars

\* the auto-reopen timeout is a browser timer: once armed it fires unless it
\* is cleared first
SpecLifeFair == SpecLife /\ WF_vars(AutoReopen)

\* the geometry of the window: maximize against the drag
NextMax ==
  \/ CreateWindow
  \/ Start
  \/ ToggleMaximize
  \/ MouseDown
  \/ MouseMove
  \/ MouseUp

SpecMax == Init /\ [][NextMax]_vars

\* the pointer on the window: the drag, the viewport resize and the 100 ms
\* timeout of createWindow
NextDrag ==
  \/ CreateWindow
  \/ Start
  \/ NextPointer

SpecDrag == Init /\ [][NextDrag]_vars

\* the animator driven by a client through its public methods
SpecAnimator == Init /\ [][NextAnimator]_vars

\* setTimeout: a timer the loop is parked at fires
SpecAnimatorFair == SpecAnimator /\ WF_vars(NextAnim)

\* ========================================================================
\* Properties
\* ========================================================================

\* what a complete run of a sequence leaves on the output surface
ExpectedLines(outs) ==
  [j \in 1..Len(outs) |->
     [className |-> IF outs[j].class = "" THEN <<"output-line">>
                    ELSE <<"output-line", outs[j].class>>,
      textContent |-> outs[j].text]]

RunComplete ==
  /\ commandText = SequenceAt(currentSequence).command
  /\ outputLines = ExpectedLines(SequenceAt(currentSequence).outputs)

\* C1: while the animator is paused neither surface changes: from pause()
\* to the next resume() no character is appended, no line is appended and
\* nothing is cleared.
C1_PausedSurfacesFrozen ==
  [][isPaused => (commandText' = commandText /\ outputLines' = outputLines)]_vars

\* C3: when a run reaches its idle period (sleep(8000)), whatever pauses and
\* resumes were interleaved with it, the command surface holds exactly the
\* command and the output surface exactly the sequence's lines, in order,
\* each with its text and class.
C3_IdleSurfacesComplete ==
  pc = "idle" => RunComplete

\* a run of the last sequence that was paused on its way has reached idle
C3_Witness ==
  /\ pc = "idle"
  /\ pausedInRun
  /\ currentSequence = K - 1
  /\ Len(commandText) = Len(SequenceAt(K - 1).command)
  /\ Len(outputLines) = Len(SequenceAt(K - 1).outputs)

\* the step that changes currentSequence, as C4 describes it
C4_AdvanceStep(mayBePaused) ==
  currentSequence' # currentSequence =>
    /\ pc = "idle"
    /\ isAnimating
    /\ RunComplete
    /\ commandEl # "null" /\ outputEl # "null"
    /\ mayBePaused \/ ~isPaused
    /\ currentSequence' = (currentSequence + 1) % K
    /\ completedRuns' = (completedRuns + 1) % (2 * K)

\* C4 (as amended): currentSequence advances by exactly one modulo K when a
\* run has gone through typing, reveal and idle, and at no other step (never
\* with unbound targets, never without the indexed sequence played in full);
\* the advance does happen while the animator is paused when the idle period
\* ends during a pause.  The index is the number of completed runs modulo K,
\* so it is 0 again after K runs.
C4_IndexFollowsCompletedRuns ==
  [][ /\ currentSequence = completedRuns % K
      /\ (pc = "idle" /\ pc' # "idle") =>
            currentSequence' = (currentSequence + 1) % K
      /\ C4_AdvanceStep(TRUE) ]_vars

\* one full pass over the catalog is done and the index is back at 0
C4_Witness ==
  /\ completedRuns = K
  /\ currentSequence = 0

\* C4 as stated: as above, and the index never advances while the animator
\* is paused.
C4_NeverAdvancesWhilePaused ==
  [][ /\ currentSequence = completedRuns % K
      /\ (pc = "idle" /\ pc' # "idle") =>
            currentSequence' = (currentSequence + 1) % K
      /\ C4_AdvanceStep(FALSE) ]_vars

\* everything but the history variable lastOp
stateVars == <<mainPc, animVars, geomVars, winbox, hidden, isMinimized,
               isMaximized, isClosed, reopenTimeout, isMobile, dockElement,
               savedPosition, timers, reopenBtnDisplay, docks>>

\* C2: at most one of isMinimized, isMaximized, isClosed is true, whatever
\* sequence of close(), minimize(), restore(), toggleMaximize(), reopen() and
\* timer firings led here.
C2_ModesExclusive ==
  /\ ~(isMinimized /\ isMaximized)
  /\ ~(isMinimized /\ isClosed)
  /\ ~(isMaximized /\ isClosed)

\* C5: reopen() on a closed window whose auto-reopen timeout is still
\* pending clears the timeout, shows the window, clears isClosed, hides the
\* reopen button and leaves the animator not paused; and while the window is
\* not closed no auto-reopen timeout is pending, so none fires later.
C5_ReopenCancelsAutoReopen ==
  [][ /\ (Reopen /\ isClosed /\ reopenTimeout \in timers) =>
            /\ timers' = {}
            /\ reopenTimeout' = 0
            /\ ~hidden'
            /\ ~isClosed'
            /\ reopenBtnDisplay' = "none"
            /\ ~isPaused'
      /\ ~isClosed => timers = {} ]_vars

\* reopen() has just reopened a closed window before its timeout fired
C5_Witness ==
  /\ lastOp = Op("reopen", TRUE)
  /\ ~isClosed /\ ~hidden /\ ~isPaused
  /\ timers = {} /\ reopenTimeout = 0
  /\ reopenBtnDisplay = "none"

\* C6: a closed window is eventually shown again with isClosed false and
\* the animator resumed (by reopen() or by the timeout, which fires unless
\* it is cleared).
C6_ClosedEventuallyShown ==
  isClosed ~> (~hidden /\ ~isClosed /\ ~isPaused)

\* the timeout has fired on a closed window and reopened it
C6_Witness ==
  /\ lastOp = Op("autoReopen", TRUE)
  /\ ~hidden /\ ~isClosed /\ ~isPaused
  /\ timers = {}

\* C8: there is one dock exactly when isMinimized is true and never more
\* than one; minimize() on a non-minimized window creates the dock, hides the
\* window and pauses the animator; restore() on a minimized window removes
\* the dock, shows the window, clears isMinimized and leaves the animator not
\* paused.
C8_DockIffMinimized ==
  [][ /\ docks = (IF isMinimized THEN 1 ELSE 0)
      /\ dockElement <=> isMinimized
      /\ (Minimize /\ ~isMinimized) =>
            (docks' = 1 /\ dockElement' /\ hidden' /\ isPaused' /\ isMinimized')
      /\ (Restore /\ isMinimized) =>
            (docks' = 0 /\ ~dockElement' /\ ~hidden' /\ ~isPaused' /\ ~isMinimized') ]_vars

\* restore() has just brought a minimized window back
C8_Witness ==
  /\ lastOp = Op("restore", TRUE)
  /\ docks = 0 /\ ~dockElement
  /\ ~hidden /\ ~isMinimized /\ ~isPaused

\* C9: once the window exists the animator is paused exactly when the
\* window is hidden.
C9_PausedIffHidden ==
  winbox => (isPaused <=> hidden)

\* a window hidden by close() and by minimize(), the animator paused
C9_Witness ==
  /\ lastOp = Op("minimize", TRUE)
  /\ isClosed /\ isMinimized
  /\ hidden /\ isPaused

\* C10: close() on a closed window, minimize() on a minimized window and
\* restore() on a window that is not minimized change nothing: visibility,
\* flags, pause flag, dock, reopen button and pending timeouts stay as they
\* are.
C10_GuardedOpsAreNoOps ==
  [][ ( \/ (Close /\ isClosed)
        \/ (Minimize /\ isMinimized)
        \/ (Restore /\ ~isMinimized) ) => UNCHANGED stateVars ]_vars

\* close() was just called on a window that was closed already: still one
\* pending timeout
C10_Witness ==
  /\ lastOp = Op("close", FALSE)
  /\ isClosed /\ hidden /\ isPaused
  /\ Cardinality(timers) = 1

\* C7: leaving maximized mode puts left, top, width and height back to what
\* they were when maximized mode was entered, whatever happened in between (a
\* drag of the maximized window included), and isMaximized is false again.
C7_UnmaximizeRestoresGeometry ==
  [][ (ToggleMaximize /\ isMaximized) =>
        /\ ~isMaximized'
        /\ Len(maxHist.geom) = 1
        /\ style'.left = maxHist.geom[1].left
        /\ style'.top = maxHist.geom[1].top
        /\ style'.width = maxHist.geom[1].width
        /\ style'.height = maxHist.geom[1].height ]_vars

\* a window that was dragged while maximized has left maximized mode and is
\* back where it was before
C7_Witness ==
  /\ lastOp = Op("toggleMaximize", FALSE)
  /\ ~isMaximized
  /\ maxHist.moved
  /\ Len(maxHist.geom) = 1
  /\ style.left = maxHist.geom[1].left
  /\ style.top = maxHist.geom[1].top
  /\ style.width = maxHist.geom[1].width
  /\ style.height = maxHist.geom[1].height

\* ------------------------------------------------------------------------
\* The drag
\* ------------------------------------------------------------------------

\* C11: dragging is enabled exactly when the latest classification of the
\* device (at creation or at the last resize) is desktop: the header of the
\* window answers a press exactly while the device is classified as desktop,
\* whatever the classification was when the window was created, and while it
\* is classified as mobile no pointer move changes the position of the window.
C11_DragIffDesktop ==
  /\ []((mainPc = "started" /\ winbox) => (drag.installed <=> ~isMobile))
  /\ [][ (MouseMove /\ isMobile) =>
           (style'.left = style.left /\ style'.top = style.top) ]_vars

\* C12: after a completed press-drag-release the float animation runs as it
\* did before the press: a release that ends a drag begun while the float
\* animation was running leaves it running.
C12_FloatRunsAfterRelease ==
  [][ (MouseUp /\ drag.listening /\ drag.isDragging
         /\ pressHist.animation = terminalFloat)
        => style'.animation = terminalFloat ]_vars

\* a position in half pixels, of a length in px
HalfPx(v) == 2 * v.n + (IF v.half THEN 1 ELSE 0)

\* C17: during a drag every pointer move puts the window at the position it
\* had at the press plus the pointer's displacement since the press; a press
\* on a chrome button or with a non-primary button starts no drag; and a
\* pointer move outside a drag never changes the position.
C17_DragFollowsPointer ==
  [][ /\ (MouseMove /\ drag.listening /\ drag.isDragging) =>
           \A x \in Coords, y \in Coords :
             DragTo(x, y) =>
               /\ style'.left.unit = "px" /\ style'.top.unit = "px"
               /\ HalfPx(style'.left)
                    = HalfPx(pressHist.left) + 2 * (x - drag.startX)
               /\ HalfPx(style'.top)
                    = HalfPx(pressHist.top) + 2 * (y - drag.startY)
      /\ (MouseDown /\ drag.installed) =>
           \A onBtn \in BOOLEAN, button \in {0, 2} :
             (onMouseDown(onBtn, button, 0, 0) /\ (onBtn \/ button # 0))
               => (drag' = drag /\ style' = style)
      /\ (MouseMove /\ ~(drag.listening /\ drag.isDragging)) =>
           style' = style ]_vars

\* ------------------------------------------------------------------------
\* The auto-reopen timer and the flags against the screen
\* ------------------------------------------------------------------------

\* C19: once the window exists, an auto-reopen timer is pending exactly when
\* isClosed is true, which is exactly when the reopen affordance is shown; at
\* most one timer is ever pending, and the pending one is the one armed by
\* the most recent close() (this.reopenTimeout), never one of an earlier
\* close() that was already reopened.
C19_TimerIffClosed ==
  winbox =>
    /\ (timers # {}) <=> isClosed
    /\ isClosed <=> (reopenBtnDisplay = "flex")
    /\ Cardinality(timers) <= 1
    /\ timers \subseteq {reopenTimeout}
    /\ isClosed => reopenTimeout # 0

\* the window has been closed: the timer of that close() is the one pending
\* and the affordance is shown
C19_Witness ==
  /\ lastOp = Op("close", TRUE)
  /\ isClosed
  /\ timers = {reopenTimeout}
  /\ reopenTimeout # 0
  /\ reopenBtnDisplay = "flex"

\* C20: after any sequence of close(), minimize(), restore(),
\* toggleMaximize(), reopen() and timer firings, in any order, the window is
\* hidden exactly when isMinimized or isClosed is true.
C20_HiddenIffFlagged ==
  winbox => (hidden <=> (isMinimized \/ isClosed))

\* ------------------------------------------------------------------------
\* The surfaces during a run
\* ------------------------------------------------------------------------
IsPrefix(a, b) == Len(a) <= Len(b) /\ a = SubSeq(b, 1, Len(a))

\* C18: at every moment of a run (isAnimating true), under any interleaving
\* of pause() and resume(), the command surface is a prefix of the current
\* sequence's command and the output surface a prefix of its list of lines;
\* the output surface is non-empty only when the command surface holds the
\* complete command; and within one run both surfaces only grow.
C18_SurfacesArePrefixes ==
  /\ [](isAnimating =>
          /\ IsPrefix(commandText, SequenceAt(currentSequence).command)
          /\ IsPrefix(outputLines,
                      ExpectedLines(SequenceAt(currentSequence).outputs))
          /\ (outputLines # <<>> =>
                commandText = SequenceAt(currentSequence).command))
  /\ [][ (isAnimating /\ isAnimating' /\ completedRuns' = completedRuns) =>
           /\ IsPrefix(commandText, commandText')
           /\ IsPrefix(outputLines, outputLines') ]_vars

\* a run paused between two of its lines: the command is complete, some but
\* not all lines are on the output surface
C18_Witness ==
  /\ isAnimating /\ isPaused
  /\ pc = "lineWait"
  /\ commandText = SequenceAt(currentSequence).command
  /\ Len(outputLines) >= 2
  /\ Len(outputLines) < Len(SequenceAt(currentSequence).outputs)

\* ------------------------------------------------------------------------
\* The timeline of a run that is never paused
\* ------------------------------------------------------------------------
RECURSIVE SumDelays(_, _)
\* d1 + ... + dj of the outputs outs
SumDelays(outs, j) == IF j = 0 THEN 0 ELSE SumDelays(outs, j - 1) + Delay(outs[j])

\* the moment the reveal phase of a run of sequence s begins
RevealStart(s) == typeSpeed * Len(s.command) + settleDelay

Unbound == commandEl = "null" \/ outputEl = "null"

C16_BindShowsCursor ==
  [][ AnimSetElements => cursorDisplay' # "none" ]_vars

\* C16: setElements replaces the three render targets in one step, leaves
\* currentSequence, isAnimating and isPaused unchanged, and writes on no
\* surface: the cursor surface keeps the display it had (the start of the
\* next run is what reveals it).
C16_BindKeepsPlaybackCursor ==
  [][ AnimSetElements =>
        /\ commandEl' = "el" /\ outputEl' = "el" /\ cursorEl' = "el"
        /\ UNCHANGED <<currentSequence, isAnimating, isPaused>>
        /\ UNCHANGED <<commandText, outputLines, cursorDisplay>> ]_vars

\* targets bound on a paused animator whose loop is running and whose
\* cursor surface is hidden: it is still paused, still hidden
C16_Witness ==
  /\ lastOp = Op("setElements", TRUE)
  /\ commandEl = "el" /\ outputEl = "el" /\ cursorEl = "el"
  /\ isPaused
  /\ cursorDisplay = "none"

\* ------------------------------------------------------------------------
\* The playback goes on for ever
\* ------------------------------------------------------------------------

\* every sequence of the catalog is again and again played to its end
EverySequenceRecurs ==
  \A s \in 0..(K - 1) : []<>(pc = "idle" /\ currentSequence = s /\ RunComplete)

\* C14 as stated: with the targets bound and every pause eventually followed
\* by a resume, under fair scheduling of the timers every sequence of the
\* catalog is started and completed infinitely often.
C14_CyclesIfEveryPauseResumed ==
  (<>(~Unbound) /\ [](isPaused => <>(~isPaused))) => EverySequenceRecurs

\* C14: with the targets bound, if again and again a timer of the loop fires
\* while the animator is not paused (every pause is followed by a resume
\* that is still in force when the loop next looks at the pause flag), then
\* under fair scheduling of the timers every sequence of the catalog is
\* started and completed infinitely often; and the loop never stops: it is
\* never caught in runSequence's early return.
C14_CyclesIfResumedAtPolls ==
  /\ (<>(~Unbound) /\ []<><<NextAnim /\ ~isPaused>>_vars) => EverySequenceRecurs
  /\ [](pc # "livelock")

\* the catalog has been played through once, the last run of it with a
\* pause on its way
C14_Witness ==
  /\ mainPc = "new"
  /\ pc = "idle"
  /\ currentSequence = K - 1
  /\ completedRuns = K - 1
  /\ pausedInRun
  /\ RunComplete

====
